---- MODULE Spec2Model ----
(***************************************************************************)
(* State-machine model of job_bot.py: one run of main(), from reading the  *)
(* environment to the process exit.  Python values are modelled as         *)
(* follows: a JSON scalar field is a string, the JSON null (None) or       *)
(* missing from its object (Absent); a JSON list field is a tagged         *)
(* sequence; an exception is a "raised" flag on the result of the call.    *)
(* The fields of the search results are taken to be strings or null, as    *)
(* the search API documents them.                                          *)
(***************************************************************************)
EXTENDS Integers, Sequences, FiniteSets, TLC

\* ------------------------------------------------------------------ bounds
\* Longest COMPANIES list explored.
MaxCompanies == 2
\* Largest MAX_RESULTS explored (the smallest is -1).
MaxCap == 2

\* --------------------------------------------------------- python values
\* A key that is missing from a dict / an unset environment variable.
Absent == "<absent>"
\* Python's None (JSON null).
None == "<None>"

\* d.get(key): None when the key is missing.
Get(v) == IF v = Absent THEN None ELSE v

\* d.get(key, default)
GetOr(v, default) == IF v = Absent THEN default ELSE v

\* Truthiness of a str-or-None value: None and "" are falsy.
Truthy(v) == v \notin {Absent, None, ""}

\* Python's "a or b" on str-or-None values.
PyOr(a, b) == IF Truthy(a) THEN a ELSE b

\* str.strip() on the strings the model uses.
Strip(s) ==
  CASE s = " " -> ""
    [] s = " Hi, saw the role. " -> "Hi, saw the role."
    [] OTHER -> s

\* html.escape() on the strings the model uses.
HtmlEscape(s) ==
  CASE s = "R&D Engineer" -> "R&amp;D Engineer"
    [] OTHER -> s

Min(a, b) == IF a <= b THEN a ELSE b
Max(a, b) == IF a >= b THEN a ELSE b

\* A JSON list field: missing, null, or a list.
AbsentList == [tag |-> "absent", val |-> <<>>]
NullList == [tag |-> "null", val |-> <<>>]
List(s) == [tag |-> "list", val |-> s]

\* "x or []" / truthiness of a list field: its elements, none when the field
\* is missing, null or empty.
OrEmpty(l) == IF l.tag = "list" THEN l.val ELSE <<>>

\* One entry of apply_options / related_links: a JSON object with an
\* optional "link", or something that is no object (obj = FALSE).
Entry(link) == [obj |-> TRUE, link |-> link]
BadEntry == [obj |-> FALSE, link |-> Absent]

\* The detected_extensions field: missing, null, or an object with an
\* optional "via".
NoExt == [tag |-> "absent", via |-> Absent]
NullExt == [tag |-> "null", via |-> Absent]
Ext(via) == [tag |-> "obj", via |-> via]

\* ------------------------------------------------------------ normalizer
\* The job dict before it exists (placeholder of a failed normalization).
NoJob ==
  [title |-> None, company_name |-> None, location |-> None, via |-> None,
   extensions |-> NoExt, description |-> None, apply_link |-> None,
   job_id |-> None, outreach |-> Absent]

\* Lines 95-100: the apply link of one raw item.
ApplyLink(item) ==
  LET apply_options == OrEmpty(item.apply_options)
      related == IF OrEmpty(item.related_links) = <<>>
                 THEN <<Entry(Absent)>>
                 ELSE OrEmpty(item.related_links)
  IN  IF apply_options # <<>>
      THEN Get(apply_options[1].link)
      ELSE PyOr(Get(related[1].link), Get(item.share_link))

\* Lines 84-100 raise (AttributeError / TypeError) on these items.
NormalizeRaises(item) ==
  \/ ~item.obj
  \/ item.detected_extensions.tag = "null"
  \/ /\ OrEmpty(item.apply_options) # <<>>
     /\ ~OrEmpty(item.apply_options)[1].obj
  \/ /\ OrEmpty(item.apply_options) = <<>>
     /\ OrEmpty(item.related_links) # <<>>
     /\ ~OrEmpty(item.related_links)[1].obj

\* Lines 84-100: the job dict built from one raw item of `company`'s response.
Normalize(item, company) ==
  [title |-> Get(item.title),
   company_name |-> GetOr(item.company_name, company),
   location |-> Get(item.location),
   via |-> Get(item.detected_extensions.via),
   extensions |-> IF item.detected_extensions.tag = "absent"
                  THEN Ext(Absent) ELSE item.detected_extensions,
   description |-> GetOr(item.description, ""),
   apply_link |-> ApplyLink(item),
   job_id |-> Get(item.job_id),
   outreach |-> Absent]

\* ------------------------------------------------------------ environment
\* A numeric setting in the environment: unset, text that is no integer, or
\* the numeral of n.
Unset == [kind |-> "unset", n |-> 0]
Text == [kind |-> "text", n |-> 0]
Numeral(n) == [kind |-> "numeral", n |-> n]

\* int(env(name, default)): raises ValueError on text that is no integer.
ParseInt(v, default) ==
  [raised |-> v.kind = "text",
   val |-> IF v.kind = "numeral" THEN v.n ELSE default]

\* The default of MAX_RESULTS.
DefaultMaxResults == 20
\* The default of DAYS.
DefaultDays == 2

\* env(name, required=True) exits: the variable is unset or blank.
Blank(v) == v = Absent \/ Strip(v) = ""

RequiredVars == <<"SERPAPI_KEY", "GMAIL_USER", "GMAIL_APP_PASSWORD", "TO_EMAIL">>

\* Mutant of MissingRequired: TO_EMAIL is read without required=True.
MissingRequiredButLast(e) ==
  SelectSeq(SubSeq(RequiredVars, 1, Len(RequiredVars) - 1),
            LAMBDA name : Blank(e[name]))

\* The required variables that make env() exit, in the order main reads them.
MissingRequired(e) ==
  SelectSeq(RequiredVars, LAMBDA name : Blank(e[name]))

\* The COMPANIES comprehension: the comma-separated fields, stripped, the
\* blank ones dropped.
ParseCompanies(fields) ==
  LET stripped == [i \in 1..Len(fields) |-> Strip(fields[i])]
  IN  SelectSeq(stripped, LAMBDA c : c # "")

AllCompanies == <<"Google", "Meta", "Amazon", "Apple">>

\* The values the environment is drawn from.
RequiredValues == {Absent, " ", "set"}
KeyValues == {Absent, "", "sk-test"}
CapValues == {Unset, Text} \cup {Numeral(n) : n \in -1..MaxCap}
DaysValues == {Unset, Text}
CompanyFields ==
  {SubSeq(AllCompanies, 1, n) : n \in 0..Min(MaxCompanies, Len(AllCompanies))}
    \cup {<<" ">>}

Environments ==
  [SERPAPI_KEY : RequiredValues, GMAIL_USER : RequiredValues,
   GMAIL_APP_PASSWORD : RequiredValues, TO_EMAIL : RequiredValues,
   OPENAI_API_KEY : KeyValues, MAX_RESULTS : CapValues, DAYS : DaysValues,
   COMPANIES : CompanyFields,
   openai_installed : BOOLEAN]

\* ----------------------------------------------------------- search client
\* A raw result item that is a JSON object, by its fields.
RawItem(title, company, desc, id, ext, options, related, share) ==
  [obj |-> TRUE, title |-> title, company_name |-> company,
   location |-> "Remote", detected_extensions |-> ext,
   description |-> desc, job_id |-> id,
   apply_options |-> options, related_links |-> related,
   share_link |-> share]

ItemA ==
  RawItem("Backend Engineer", "Acme", "Build APIs", "j1", Ext("LinkedIn"),
          List(<<Entry("https://apply/1")>>), AbsentList, "https://share/1")
\* Same (title, company_name) as ItemA, another job_id.
ItemA2 ==
  RawItem("Backend Engineer", "Acme", Absent, "j2", Ext(Absent),
          AbsentList, List(<<Entry("https://related/2")>>), Absent)
\* No title, no company_name (the queried company is used), null description.
ItemB ==
  RawItem(Absent, Absent, None, Absent, NoExt,
          List(<<Entry(Absent)>>), List(<<Entry("https://related/3")>>),
          "https://share/3")
ItemC ==
  RawItem("R&D Engineer", None, " ", None, NoExt,
          NullList, List(<<>>), "https://share/4")
\* An element of jobs_results that is no JSON object.
BadItem == [ItemA EXCEPT !.obj = FALSE]

\* What google_jobs_search does: it raises (requests exception,
\* raise_for_status, invalid JSON), or returns the decoded body, which is an
\* object with an optional jobs_results or something else.
Raise(why) == [raised |-> TRUE, why |-> why, isDict |-> FALSE, jobs_results |-> AbsentList]
Body(results) == [raised |-> FALSE, why |-> "", isDict |-> TRUE, jobs_results |-> results]
NotAnObject == [raised |-> FALSE, why |-> "", isDict |-> FALSE, jobs_results |-> AbsentList]

SearchOutcomes ==
  {Raise("ConnectionError"), Raise("HTTPError"), Raise("JSONDecodeError"),
   NotAnObject, Body(AbsentList), Body(NullList), Body(List(<<>>)),
   Body(List(<<ItemA>>)), Body(List(<<ItemA, ItemA2>>)),
   Body(List(<<ItemB>>)), Body(List(<<ItemB, ItemB>>)),
   Body(List(<<ItemC, ItemA2>>)),
   Body(List(<<ItemA, BadItem, ItemC>>)), Body(List(<<BadItem>>))}

\* Lines 83-101: the index of the first item whose normalization raises
\* (Len + 1 when none does).
FirstBad(items) ==
  LET bad == {i \in 1..Len(items) : NormalizeRaises(items[i])}
  IN  IF bad = {} THEN Len(items) + 1
      ELSE CHOOSE i \in bad : \A j \in bad : i <= j

\* Lines 81-103: the try block for one company: the records appended to the
\* accumulator before the block ends, and whether it ended in the except
\* clause.
CompanyBatch(out, company) ==
  IF out.raised \/ ~out.isDict \/ out.jobs_results.tag = "null"
  THEN [raised |-> TRUE, batch |-> <<>>]
  ELSE LET items == out.jobs_results.val
           f == FirstBad(items)
       IN  [raised |-> f <= Len(items),
            batch |-> [i \in 1..(f - 1) |-> Normalize(items[i], company)]]

\* Mutant of AppendBatch: the records are inserted at the front.
PrependBatch(acc, batch) == batch \o acc

\* Line 101: jobs.append(job), for the records of one company.
AppendBatch(acc, batch) == acc \o batch

\* Mutant of CapReached: the test is > instead of >=.
CapExceeded(acc, cap) == Len(acc) > cap

\* Line 105: the break condition.
CapReached(acc, cap) == Len(acc) >= cap

\* ------------------------------------------------------------ deduplicator
\* Line 112.
Key(j) == <<j.title, j.company_name>>

\* Mutant of Dedup: the last record of each key is kept, not the first.
DedupKeepLast(acc) ==
  LET keep == {i \in 1..Len(acc) :
                 \A h \in (i + 1)..Len(acc) : Key(acc[h]) # Key(acc[i])}
      F[n \in 0..Len(acc)] ==
        IF n = 0 THEN <<>>
        ELSE IF n \in keep THEN Append(F[n - 1], acc[n]) ELSE F[n - 1]
  IN  F[Len(acc)]

\* Lines 109-116: keep a record iff no earlier record has its key.
Dedup(acc) ==
  LET keep == {i \in 1..Len(acc) : \A h \in 1..(i - 1) : Key(acc[h]) # Key(acc[i])}
      F[n \in 0..Len(acc)] ==
        IF n = 0 THEN <<>>
        ELSE IF n \in keep THEN Append(F[n - 1], acc[n]) ELSE F[n - 1]
  IN  F[Len(acc)]

\* Mutant of Slice: the slice is one record too long.
SliceOffByOne(s, n) ==
  IF n >= 0 THEN SubSeq(s, 1, Min(n + 1, Len(s)))
  ELSE SubSeq(s, 1, Max(0, Len(s) + n))

\* Line 117: the slice s[:n]; a negative n counts from the end.
Slice(s, n) ==
  IF n >= 0 THEN SubSeq(s, 1, Min(n, Len(s)))
  ELSE SubSeq(s, 1, Max(0, Len(s) + n))

\* ------------------------------------------------------- outreach enricher
InstallMsg == "Install openai>=1.0.0 to generate messages. Error: <e>"
ErrorMsg == "(Generate later) Error using OpenAI API: <e>"
SetKeyMsg == "(Set OPENAI_API_KEY to auto-generate outreach messaging.)"

\* What client.chat.completions.create does: it raises, or returns a
\* completion whose message content is text or null.
LLMReplies ==
  {[raised |-> TRUE, content |-> None], [raised |-> FALSE, content |-> None],
   [raised |-> FALSE, content |-> " Hi, saw the role. "]}

\* Lines 32-52: gen_outreach.  requested: the completion request was made.
gen_outreach(job, installed, reply) ==
  IF ~installed
  THEN [raised |-> FALSE, value |-> InstallMsg, requested |-> FALSE]
  ELSE IF GetOr(job.description, "") = None
  THEN [raised |-> TRUE, value |-> None, requested |-> FALSE]
  ELSE IF reply.raised \/ reply.content = None
  THEN [raised |-> TRUE, value |-> None, requested |-> TRUE]
  ELSE [raised |-> FALSE, value |-> Strip(reply.content), requested |-> TRUE]

\* Mutant of Outreach: the except clause leaves the outreach unset.
OutreachUnsetOnError(key, job, installed, reply) ==
  IF Truthy(key)
  THEN LET g == gen_outreach(job, installed, reply)
       IN  [value |-> IF g.raised THEN Absent ELSE g.value,
            called |-> TRUE, requested |-> g.requested, failed |-> g.raised]
  ELSE [value |-> SetKeyMsg, called |-> FALSE, requested |-> FALSE,
        failed |-> FALSE]

\* Lines 121-127: the outreach of one record.  called: gen_outreach was
\* called; failed: it raised.
Outreach(key, job, installed, reply) ==
  IF Truthy(key)
  THEN LET g == gen_outreach(job, installed, reply)
       IN  [value |-> IF g.raised THEN ErrorMsg ELSE g.value,
            called |-> TRUE, requested |-> g.requested, failed |-> g.raised]
  ELSE [value |-> SetKeyMsg, called |-> FALSE, requested |-> FALSE,
        failed |-> FALSE]

\* --------------------------------------------------------- digest renderer
NoRolesRow ==
  "No fresh roles found today. Try widening COMPANIES or ROLE_QUERY."

\* Lines 132-152: one table row.  The model's descriptions are shorter than
\* the 420 characters kept and no string holds a newline.
Row(idx, j) ==
  [idx |-> idx,
   title |-> HtmlEscape(PyOr(j.title, "")),
   comp |-> HtmlEscape(PyOr(j.company_name, "")),
   loc |-> HtmlEscape(PyOr(j.location, "")),
   link |-> HtmlEscape(PyOr(j.apply_link, "#")),
   desc |-> HtmlEscape(Strip(PyOr(j.description, ""))),
   outreach |-> HtmlEscape(PyOr(j.outreach, ""))]

\* Mutant of RenderRows: no placeholder row for an empty list.
RenderRowsNoPlaceholder(list) ==
  [placeholder |-> "", rows |-> [i \in 1..Len(list) |-> Row(i, list[i])]]

\* Lines 130-157: the table body: the rows, or the placeholder row when
\* there is none.
RenderRows(list) ==
  LET rows == [i \in 1..Len(list) |-> Row(i, list[i])]
  IN  [placeholder |-> IF rows = <<>> THEN NoRolesRow ELSE "", rows |-> rows]

\* Line 159: the subject, by the count it reports.
Subject(list) == [roles |-> Len(list)]

NoHtml == [placeholder |-> "", rows |-> <<>>]

\* ------------------------------------------------------------------ mailer
\* What send_email does: it returns, or raises from the connection, the
\* login or the transmission.
SendOutcomes == {"sent", "connect failed", "login failed", "sendmail failed"}

\* Mutant of AfterSend: a failed send is swallowed and the run goes on.
AfterSendCaught(outcome) == [pc |-> "print", status |-> 0]

\* Lines 177-178 and the interpreter's exit: what follows a send_email
\* outcome.  An exception leaves main and the interpreter exits with 1.
AfterSend(outcome) ==
  IF outcome = "sent" THEN [pc |-> "print", status |-> 0]
  ELSE [pc |-> "exited", status |-> 1]

\* ------------------------------------------------------------------- state
VARIABLES
  pc,              \* where main is
  environ,         \* os.environ, and whether openai can be imported
  OPENAI_API_KEY,  \* main's locals
  MAX_RESULTS,
  COMPANIES,
  ci,              \* index of the company the for loop is at
  jobs,
  deduped,
  k,               \* index of the record the outreach loop is at
  rows_html,
  subject,
  stderr,          \* lines written to standard error
  stdout,          \* lines written to standard output
  exitStatus,      \* the process exit status, -1 while running
  searchCalls,     \* history: companies google_jobs_search was called for
  responses,       \* history: what google_jobs_search did at each call
  genCalls,        \* history: records gen_outreach was called for
  llmRequests,     \* history: records a completion was requested for
  mailAttempts,    \* history: outcomes of the send_email calls
  outbox,          \* messages the relay accepted
  nItem,           \* normalizer check: the raw item
  nCompany,        \* normalizer check: the queried company
  nResult          \* normalizer check: the outcome

vars ==
  <<pc, environ, OPENAI_API_KEY, MAX_RESULTS, COMPANIES, ci, jobs, deduped, k,
    rows_html, subject, stderr, stdout, exitStatus, searchCalls, responses,
    genCalls, llmRequests, mailAttempts, outbox, nItem, nCompany, nResult>>

mainVars ==
  <<pc, environ, OPENAI_API_KEY, MAX_RESULTS, COMPANIES, ci, jobs, deduped,
    k, rows_html, subject, stderr, stdout, exitStatus, searchCalls, responses,
    genCalls, llmRequests, mailAttempts, outbox>>

normVars == <<nItem, nCompany, nResult>>

NoResult == [done |-> FALSE, raised |-> FALSE, job |-> NoJob]

InitMain(e) ==
  /\ environ = e
  /\ OPENAI_API_KEY = Absent
  /\ MAX_RESULTS = 0
  /\ COMPANIES = <<>>
  /\ ci = 1
  /\ jobs = <<>>
  /\ deduped = <<>>
  /\ k = 1
  /\ rows_html = NoHtml
  /\ subject = Subject(<<>>)
  /\ stderr = <<>>
  /\ stdout = <<>>
  /\ exitStatus = -1
  /\ searchCalls = <<>>
  /\ responses = <<>>
  /\ genCalls = <<>>
  /\ llmRequests = <<>>
  /\ mailAttempts = <<>>
  /\ outbox = <<>>

Init ==
  /\ pc = "start"
  /\ \E e \in Environments : InitMain(e)
  /\ nItem = ItemA
  /\ nCompany = "Google"
  /\ nResult = NoResult

\* Lines 67-76: main reads its configuration.  env() exits with 1 on the
\* first required variable that is unset or blank; int() raises on a numeric
\* setting that is no integer, and the interpreter exits with 1.
LoadConfig ==
  /\ pc = "start"
  /\ LET missing == MissingRequired(environ)
         cap == ParseInt(environ.MAX_RESULTS, DefaultMaxResults)
         days == ParseInt(environ.DAYS, DefaultDays)
     IN  IF missing # <<>>
         THEN /\ stderr' = Append(stderr, <<"Missing required env var", missing[1]>>)
              /\ exitStatus' = 1
              /\ pc' = "exited"
              /\ UNCHANGED <<OPENAI_API_KEY, MAX_RESULTS, COMPANIES>>
         ELSE IF cap.raised
         THEN /\ stderr' = Append(stderr, <<"Traceback", "ValueError">>)
              /\ exitStatus' = 1
              /\ pc' = "exited"
              /\ OPENAI_API_KEY' = environ.OPENAI_API_KEY
              /\ UNCHANGED <<MAX_RESULTS, COMPANIES>>
         ELSE IF days.raised
         THEN /\ stderr' = Append(stderr, <<"Traceback", "ValueError">>)
              /\ exitStatus' = 1
              /\ pc' = "exited"
              /\ OPENAI_API_KEY' = environ.OPENAI_API_KEY
              /\ MAX_RESULTS' = cap.val
              /\ COMPANIES' = ParseCompanies(environ.COMPANIES)
         ELSE /\ OPENAI_API_KEY' = environ.OPENAI_API_KEY
              /\ MAX_RESULTS' = cap.val
              /\ COMPANIES' = ParseCompanies(environ.COMPANIES)
              /\ pc' = "search"
              /\ UNCHANGED <<stderr, exitStatus>>
  /\ UNCHANGED <<environ, ci, jobs, deduped, k, rows_html, subject, stdout,
                 searchCalls, responses, genCalls, llmRequests, mailAttempts,
                 outbox>>
  /\ UNCHANGED normVars

\* Lines 79-106: one iteration of the company loop: the search call, the
\* normalization of its items, the warning on a failure, the break test.
SearchCompany ==
  /\ pc = "search"
  /\ ci <= Len(COMPANIES)
  /\ \E out \in SearchOutcomes :
       LET company == COMPANIES[ci]
           r == CompanyBatch(out, company)
       IN  /\ searchCalls' = Append(searchCalls, company)
           /\ jobs' = AppendBatch(jobs, r.batch)
           /\ responses' = Append(responses, out)
           /\ stderr' = IF r.raised
                        THEN Append(stderr, <<"[warn] query failed", company>>)
                        ELSE stderr
           /\ IF CapReached(jobs', MAX_RESULTS)
              THEN pc' = "dedup" /\ ci' = ci
              ELSE pc' = "search" /\ ci' = ci + 1
  /\ UNCHANGED <<environ, OPENAI_API_KEY, MAX_RESULTS, COMPANIES, deduped,
                 k, rows_html, subject, stdout, exitStatus, genCalls,
                 llmRequests, mailAttempts, outbox>>
  /\ UNCHANGED normVars

\* Line 79: the company list is exhausted.
SearchDone ==
  /\ pc = "search"
  /\ ci > Len(COMPANIES)
  /\ pc' = "dedup"
  /\ UNCHANGED <<environ, OPENAI_API_KEY, MAX_RESULTS, COMPANIES, ci, jobs,
                 deduped, k, rows_html, subject, stderr, stdout, exitStatus,
                 searchCalls, responses, genCalls, llmRequests, mailAttempts,
                 outbox>>
  /\ UNCHANGED normVars

\* Lines 109-117: deduplicate, then truncate.
DedupTruncate ==
  /\ pc = "dedup"
  /\ deduped' = Dedup(jobs)
  /\ jobs' = Slice(deduped', MAX_RESULTS)
  /\ k' = 1
  /\ pc' = "enrich"
  /\ UNCHANGED <<environ, OPENAI_API_KEY, MAX_RESULTS, COMPANIES, ci,
                 rows_html, subject, stderr, stdout, exitStatus, searchCalls,
                 responses, genCalls, llmRequests, mailAttempts, outbox>>
  /\ UNCHANGED normVars

\* Lines 120-127: one iteration of the outreach loop.  jobs[k] and deduped[k]
\* are the same dict, so the assignment shows in both lists.
EnrichRecord ==
  /\ pc = "enrich"
  /\ k <= Len(jobs)
  /\ \E reply \in LLMReplies :
       LET o == Outreach(OPENAI_API_KEY, jobs[k], environ.openai_installed, reply)
       IN  /\ jobs' = [jobs EXCEPT ![k].outreach = o.value]
           /\ deduped' = [deduped EXCEPT ![k].outreach = o.value]
           /\ genCalls' = IF o.called THEN Append(genCalls, k) ELSE genCalls
           /\ llmRequests' =
                IF o.requested
                THEN Append(llmRequests, [record |-> k, failed |-> o.failed])
                ELSE llmRequests
  /\ k' = k + 1
  /\ UNCHANGED <<pc, environ, OPENAI_API_KEY, MAX_RESULTS, COMPANIES, ci,
                 rows_html, subject, stderr, stdout, exitStatus, searchCalls,
                 responses, mailAttempts, outbox>>
  /\ UNCHANGED normVars

\* Line 120: the record list is exhausted.
EnrichDone ==
  /\ pc = "enrich"
  /\ k > Len(jobs)
  /\ pc' = "render"
  /\ UNCHANGED <<environ, OPENAI_API_KEY, MAX_RESULTS, COMPANIES, ci, jobs,
                 deduped, k, rows_html, subject, stderr, stdout, exitStatus,
                 searchCalls, responses, genCalls, llmRequests, mailAttempts,
                 outbox>>
  /\ UNCHANGED normVars

\* Lines 130-175: the rows, the subject and the body.
Render ==
  /\ pc = "render"
  /\ rows_html' = RenderRows(jobs)
  /\ subject' = Subject(jobs)
  /\ pc' = "send"
  /\ UNCHANGED <<environ, OPENAI_API_KEY, MAX_RESULTS, COMPANIES, ci, jobs,
                 deduped, k, stderr, stdout, exitStatus, searchCalls, responses,
                 genCalls, llmRequests, mailAttempts, outbox>>
  /\ UNCHANGED normVars

\* Line 177: send_email; its exceptions are not caught.
SendEmail ==
  /\ pc = "send"
  /\ \E outcome \in SendOutcomes :
       /\ mailAttempts' = Append(mailAttempts, outcome)
       /\ outbox' = IF outcome = "sent"
                    THEN Append(outbox, [to |-> environ.TO_EMAIL,
                                         subject |-> subject,
                                         body |-> rows_html])
                    ELSE outbox
       /\ pc' = AfterSend(outcome).pc
       /\ IF AfterSend(outcome).pc = "exited"
          THEN /\ exitStatus' = AfterSend(outcome).status
               /\ stderr' = Append(stderr, <<"Traceback", outcome>>)
          ELSE UNCHANGED <<exitStatus, stderr>>
  /\ UNCHANGED <<environ, OPENAI_API_KEY, MAX_RESULTS, COMPANIES, ci, jobs,
                 deduped, k, rows_html, subject, stdout, searchCalls, responses,
                 genCalls, llmRequests>>
  /\ UNCHANGED normVars

\* Line 178 and the return of main: the summary, then exit status 0.
PrintSummary ==
  /\ pc = "print"
  /\ stdout' = Append(stdout, [to |-> environ.TO_EMAIL, jobs |-> Len(jobs)])
  /\ exitStatus' = 0
  /\ pc' = "exited"
  /\ UNCHANGED <<environ, OPENAI_API_KEY, MAX_RESULTS, COMPANIES, ci, jobs,
                 deduped, k, rows_html, subject, stderr, searchCalls, responses,
                 genCalls, llmRequests, mailAttempts, outbox>>
  /\ UNCHANGED normVars

Next ==
  \/ LoadConfig
  \/ SearchCompany
  \/ SearchDone
  \/ DedupTruncate
  \/ EnrichRecord
  \/ EnrichDone
  \/ Render
  \/ SendEmail
  \/ PrintSummary

Spec == Init /\ [][Next]_vars

\* ------------------------------------------- the normalizer on every item
\* The first entries a list of links is drawn from.
LinkLists(l) ==
  {AbsentList, NullList, List(<<>>), List(<<Entry(Absent)>>),
   List(<<Entry(None)>>), List(<<Entry("")>>), List(<<Entry(l)>>),
   List(<<BadEntry>>), List(<<Entry(l), Entry("https://other")>>)}

NormItems ==
  [obj : BOOLEAN,
   title : {Absent, None, "Backend Engineer"},
   company_name : {Absent, None, "Acme"},
   location : {Absent, "Remote"},
   detected_extensions : {NoExt, NullExt, Ext(Absent), Ext("LinkedIn")},
   description : {Absent, None, "Build APIs"},
   job_id : {Absent, "j1"},
   apply_options : LinkLists("https://apply/1"),
   related_links : LinkLists("https://related/1"),
   share_link : {Absent, None, "https://share/1"}]

InitNorm ==
  /\ pc = "normalize"
  /\ \E e \in Environments :
       /\ MissingRequired(e) = <<>>
       /\ e.COMPANIES = <<"Google">>
       /\ e.OPENAI_API_KEY = Absent
       /\ e.MAX_RESULTS = Unset
       /\ e.DAYS = Unset
       /\ e.openai_installed
       /\ InitMain(e)
  /\ nItem \in NormItems
  /\ nCompany = "Google"
  /\ nResult = NoResult

\* Lines 84-100 applied to one raw item, as the loop body of line 83 does.
NormalizeItem ==
  /\ pc = "normalize"
  /\ ~nResult.done
  /\ nResult' = [done |-> TRUE, raised |-> NormalizeRaises(nItem),
                 job |-> IF NormalizeRaises(nItem) THEN NoJob
                         ELSE Normalize(nItem, nCompany)]
  /\ UNCHANGED <<nItem, nCompany>>
  /\ UNCHANGED mainVars

NextNorm == NormalizeItem

SpecNorm == InitNorm /\ [][NextNorm]_vars

\* ================================================================== claims
\* A record as it was fetched: without the outreach set later.
Bare(j) == [j EXCEPT !.outreach = Absent]

\* The items of one response normalized one after the other, in the order
\* of the response, up to the first that cannot be normalized.
RECURSIVE NormalizedFrom(_, _, _)
NormalizedFrom(items, i, company) ==
  IF i > Len(items) \/ NormalizeRaises(items[i]) THEN <<>>
  ELSE <<Normalize(items[i], company)>> \o NormalizedFrom(items, i + 1, company)

\* The records the n-th company queried has put in the accumulator.
Contribution(n) ==
  IF responses[n].raised \/ ~responses[n].isDict THEN <<>>
  ELSE NormalizedFrom(OrEmpty(responses[n].jobs_results), 1, searchCalls[n])

\* The contributions of the first n companies queried, one after the other.
RECURSIVE FetchedUpTo(_)
FetchedUpTo(n) ==
  IF n = 0 THEN <<>> ELSE FetchedUpTo(n - 1) \o Contribution(n)

\* Every record fetched in the run so far, in the order it was fetched.
Fetched == FetchedUpTo(Len(responses))

Keys(list) == {Key(list[i]) : i \in 1..Len(list)}

\* The position of the first record of list with the key.
FirstIndex(list, key) ==
  CHOOSE i \in 1..Len(list) :
    /\ Key(list[i]) = key
    /\ \A h \in 1..(i - 1) : Key(list[h]) # key

\* The dedup-then-truncate step has run.
Truncated == pc \in {"enrich", "render", "send", "print"} \/ mailAttempts # <<>>

\* The outreach loop has ended.
Enriched == pc \in {"render", "send", "print"} \/ mailAttempts # <<>>

RequiredNames == {"SERPAPI_KEY", "GMAIL_USER", "GMAIL_APP_PASSWORD", "TO_EMAIL"}

\* A required environment variable is unset or blank.
RequiredMissing ==
  \E name \in RequiredNames : environ[name] \in {Absent, "", " "}

\* The required variables are set and the numeric settings are integers.
ConfigValid ==
  /\ ~RequiredMissing
  /\ environ.MAX_RESULTS.kind # "text"
  /\ environ.DAYS.kind # "text"

\* ---- C1
\* C1 as stated: from the truncation on, the final list is never longer than
\* MAX_RESULTS, whatever integer MAX_RESULTS is.
C1_Original == Truncated => Len(jobs) <= MAX_RESULTS

\* C1, amended: from the truncation until the exit, the final list has at
\* most MAX_RESULTS records whenever MAX_RESULTS >= 0; with a negative
\* MAX_RESULTS the slice drops the last -MAX_RESULTS records of the
\* deduplicated list instead, leaving max(0, len(deduped) + MAX_RESULTS).
C1_LengthWithinCap ==
  Truncated =>
    IF MAX_RESULTS >= 0
    THEN Len(jobs) <= MAX_RESULTS
    ELSE Len(jobs) = Max(0, Cardinality(Keys(Fetched)) + MAX_RESULTS)

\* The truncation cut a deduplicated list longer than a positive cap.
C1_Witness ==
  /\ Truncated
  /\ MAX_RESULTS >= 1
  /\ Len(deduped) > MAX_RESULTS
  /\ Len(jobs) = MAX_RESULTS

\* ---- C2
\* C2: the list built by the dedup loop has exactly one record per distinct
\* (title, company_name) pair of the accumulator, that record is the first
\* fetched with its pair, the records are in the order of those first
\* occurrences, and the final list has no two records with the same pair.
C2_StableDedup ==
  Truncated =>
    /\ Keys(deduped) = Keys(Fetched)
    /\ \A a, b \in 1..Len(deduped) :
         a < b => Key(deduped[a]) # Key(deduped[b])
    /\ \A a \in 1..Len(deduped) :
         Bare(deduped[a]) = Fetched[FirstIndex(Fetched, Key(deduped[a]))]
    /\ \A a, b \in 1..Len(deduped) :
         a < b => FirstIndex(Fetched, Key(deduped[a]))
                    < FirstIndex(Fetched, Key(deduped[b]))
    /\ \A a, b \in 1..Len(jobs) : a < b => Key(jobs[a]) # Key(jobs[b])

\* Duplicates were dropped, one of them fetched from a later company, and
\* more than one pair is left.
C2_Witness ==
  /\ Truncated
  /\ Len(deduped) >= 2
  /\ Len(Fetched) >= Len(deduped) + 2
  /\ Len(jobs) >= 2

\* ---- C3
\* C3 as stated: search calls are made one per company in list order, and
\* none is made in a state where len(jobs) >= MAX_RESULTS.
C3_Original ==
  [][searchCalls' # searchCalls =>
       /\ searchCalls' = SubSeq(COMPANIES, 1, Len(searchCalls) + 1)
       /\ Len(jobs) < MAX_RESULTS]_vars

\* C3, amended: at most N search calls, one per company in list order; every
\* call after the first is made with len(jobs) < MAX_RESULTS, and so is the
\* first when MAX_RESULTS >= 1 (the cap is tested only at the end of an
\* iteration, so the first company is queried whatever MAX_RESULTS is); with
\* MAX_RESULTS >= 1 the accumulator exceeds the cap by no more than the
\* batch of the last company queried.
C3_SearchCalls ==
  /\ [][searchCalls' # searchCalls =>
          /\ searchCalls' = SubSeq(COMPANIES, 1, Len(searchCalls) + 1)
          /\ Len(searchCalls) + 1 <= Len(COMPANIES)
          /\ (searchCalls # <<>> \/ MAX_RESULTS >= 1) => Len(jobs) < MAX_RESULTS]_vars
  /\ [](/\ Len(searchCalls) <= Len(COMPANIES)
        /\ (pc \in {"search", "dedup"} /\ searchCalls # <<>> /\ MAX_RESULTS >= 1)
             => Len(jobs) - Len(Contribution(Len(searchCalls))) < MAX_RESULTS)

\* The loop stopped before the end of the list, on a batch that overshot.
C3_Witness ==
  /\ pc = "dedup"
  /\ MAX_RESULTS >= 1
  /\ Len(jobs) > MAX_RESULTS
  /\ Len(searchCalls) >= 1
  /\ Len(searchCalls) < Len(COMPANIES)

\* ---- C4
\* C4: a company whose processing fails (a warning is written for it) leaves
\* the accumulator as it was, and the run goes on.
C4_FailedCompanyAddsNothing ==
  [][(pc = "search" /\ stderr' # stderr) =>
       /\ jobs' = jobs
       /\ pc' \in {"search", "dedup"}
       /\ exitStatus' = -1]_vars

\* ---- C5
\* The link of the first entry of a list of links; null when there is none.
FirstLink(l) ==
  IF OrEmpty(l) = <<>> THEN None ELSE Get(OrEmpty(l)[1].link)

\* The first value of the chain apply_options, related_links, share_link
\* that is there (an empty link counts as not there); what share_link holds
\* when neither list gives a link.
ChainLink(item) ==
  IF Truthy(FirstLink(item.apply_options)) THEN FirstLink(item.apply_options)
  ELSE IF Truthy(FirstLink(item.related_links)) THEN FirstLink(item.related_links)
  ELSE Get(item.share_link)

\* C5: the apply_link of a normalized record is the first non-absent value
\* of the chain: the link of the first apply_options entry, the link of the
\* first related_links entry, share_link.
C5_ApplyLinkChain ==
  (nResult.done /\ ~nResult.raised) => nResult.job.apply_link = ChainLink(nItem)

\* ---- C6
\* C6: when a required environment variable is unset or blank, the process
\* exits with status 1 and no search call, language-model call or mail send
\* is ever made.
C6_NoNetworkOnMissingEnv ==
  RequiredMissing =>
    /\ pc \in {"start", "exited"}
    /\ pc = "exited" => exitStatus = 1
    /\ searchCalls = <<>>
    /\ genCalls = <<>>
    /\ llmRequests = <<>>
    /\ mailAttempts = <<>>

\* The process has exited on a missing TO_EMAIL, the last variable read.
C6_Witness ==
  /\ pc = "exited"
  /\ exitStatus = 1
  /\ environ.TO_EMAIL = Absent
  /\ environ.SERPAPI_KEY = "set"
  /\ environ.GMAIL_USER = "set"
  /\ environ.GMAIL_APP_PASSWORD = "set"
  /\ stderr = <<<<"Missing required env var", "TO_EMAIL">>>>

\* ---- C7
\* The records a completion was requested for, in the order of the requests.
Requested == [n \in 1..Len(llmRequests) |-> llmRequests[n].record]

\* C7 as stated: after the outreach loop every record has its outreach set;
\* with a credential exactly one generation request was made per record, in
\* list order, a failed one leaving the error placeholder; without one no
\* request was made and every record has the set-the-credential placeholder.
C7_Original ==
  Enriched =>
    /\ \A i \in 1..Len(jobs) : jobs[i].outreach # Absent
    /\ Truthy(OPENAI_API_KEY) =>
         /\ Requested = [i \in 1..Len(jobs) |-> i]
         /\ \A n \in 1..Len(llmRequests) :
              llmRequests[n].failed => jobs[llmRequests[n].record].outreach = ErrorMsg
    /\ ~Truthy(OPENAI_API_KEY) =>
         /\ llmRequests = <<>>
         /\ \A i \in 1..Len(jobs) : jobs[i].outreach = SetKeyMsg

\* C7, amended: after the outreach loop every record has its outreach set;
\* with a credential gen_outreach was called exactly once per record, in
\* list order, and made at most one generation request for it: exactly one
\* when the openai library can be imported and the record's description is
\* not null, none otherwise (the outreach is then the install placeholder,
\* or the error placeholder); a failed request leaves the error placeholder
\* and the loop goes on; without a credential no request was made and every
\* record has the set-the-credential placeholder.
C7_Enrichment ==
  /\ pc = "enrich" =>
       \A i \in 1..Len(jobs) : (jobs[i].outreach # Absent) <=> (i < k)
  /\ Enriched =>
       /\ \A i \in 1..Len(jobs) : jobs[i].outreach # Absent
       /\ Truthy(OPENAI_API_KEY) =>
            /\ genCalls = [i \in 1..Len(jobs) |-> i]
            /\ Requested =
                 SelectSeq([i \in 1..Len(jobs) |-> i],
                           LAMBDA i : /\ environ.openai_installed
                                      /\ jobs[i].description # None)
            /\ \A n \in 1..Len(llmRequests) :
                 jobs[llmRequests[n].record].outreach =
                   IF llmRequests[n].failed THEN ErrorMsg ELSE "Hi, saw the role."
            /\ \A i \in 1..Len(jobs) :
                 /\ ~environ.openai_installed => jobs[i].outreach = InstallMsg
                 /\ (environ.openai_installed /\ jobs[i].description = None)
                      => jobs[i].outreach = ErrorMsg
       /\ ~Truthy(OPENAI_API_KEY) =>
            /\ genCalls = <<>>
            /\ llmRequests = <<>>
            /\ \A i \in 1..Len(jobs) : jobs[i].outreach = SetKeyMsg

\* The request for the first record failed and the one for the second
\* record was still made, and answered.
C7_Witness ==
  /\ Enriched
  /\ Len(jobs) >= 2
  /\ Len(llmRequests) >= 2
  /\ llmRequests[1] = [record |-> 1, failed |-> TRUE]
  /\ llmRequests[2] = [record |-> 2, failed |-> FALSE]
  /\ jobs[1].outreach = ErrorMsg
  /\ jobs[2].outreach = "Hi, saw the role."

\* ---- C8
\* C8 as stated: a run whose required variables are set ends with exactly
\* one mail send attempted.
C8_Original ==
  (pc = "exited" /\ ~RequiredMissing) => Len(mailAttempts) = 1

\* C8, amended: in every run whose required variables are set and whose
\* MAX_RESULTS and DAYS, when set, are integers, exactly one mail send is
\* attempted; it comes after every search call and every enrichment step,
\* whatever failed before; an empty final list is rendered as the single
\* placeholder row and is still mailed; the subject reports the length of
\* the final list.
C8_OneMail ==
  /\ [](/\ Len(mailAttempts) <= 1
        /\ (pc = "exited" /\ ConfigValid) => Len(mailAttempts) = 1
        /\ ~ConfigValid => mailAttempts = <<>>
        /\ pc \in {"send", "print"} \/ mailAttempts # <<>> =>
             /\ subject = [roles |-> Len(jobs)]
             /\ Len(rows_html.rows) = Len(jobs)
             /\ (rows_html.placeholder = NoRolesRow) <=> (jobs = <<>>)
             /\ (rows_html.placeholder = "") <=> (jobs # <<>>)
             /\ \A i \in 1..Len(jobs) : jobs[i].outreach # Absent
        /\ \A m \in 1..Len(outbox) :
             /\ outbox[m].subject = subject
             /\ outbox[m].body = rows_html
        /\ Len(outbox) <= Len(mailAttempts))
  /\ [][/\ mailAttempts' # mailAttempts => pc = "send"
        /\ mailAttempts # <<>> =>
             /\ searchCalls' = searchCalls
             /\ genCalls' = genCalls
             /\ llmRequests' = llmRequests
             /\ jobs' = jobs]_vars

\* Every company failed, nothing was found, and the placeholder row was
\* mailed.
C8_Witness ==
  /\ pc = "exited"
  /\ Len(searchCalls) >= 2
  /\ Len(stderr) = Len(searchCalls)
  /\ jobs = <<>>
  /\ Len(outbox) = 1
  /\ outbox[1].body.placeholder = NoRolesRow
  /\ outbox[1].subject.roles = 0

\* ---- C9
\* C9: a failed mail send ends the process with a non-zero status and no
\* summary; the summary is printed, and the status is 0, only after a mail
\* send that succeeded; failed searches or enrichments alone never make the
\* status non-zero.
C9_ExitStatus ==
  /\ (mailAttempts # <<>> /\ mailAttempts[1] # "sent") =>
       /\ pc = "exited"
       /\ exitStatus = 1
       /\ stdout = <<>>
  /\ stdout # <<>> => (mailAttempts = <<"sent">> /\ exitStatus = 0)
  /\ exitStatus = 0 => (mailAttempts = <<"sent">> /\ Len(stdout) = 1)
  /\ (pc = "exited" /\ mailAttempts = <<"sent">>) => exitStatus = 0
  /\ (pc = "exited" /\ exitStatus # 0) =>
       (~ConfigValid \/ (mailAttempts # <<>> /\ mailAttempts[1] # "sent"))

\* The login at the relay failed after a run with a failed search.
C9_Witness ==
  /\ pc = "exited"
  /\ mailAttempts = <<"login failed">>
  /\ exitStatus = 1
  /\ stdout = <<>>
  /\ jobs # <<>>
  /\ \E n \in 1..Len(stderr) : stderr[n][1] = "[warn] query failed"

\* ---- C10
\* C10: all along the company loop the accumulator is the records of the
\* companies queried so far, company after company in list order, each
\* company's records in the order of its response; and any two records of
\* the final list are in the order in which they were fetched.
C10_FetchOrder ==
  /\ pc = "search" => ci = Len(searchCalls) + 1
  /\ searchCalls = SubSeq(COMPANIES, 1, Len(searchCalls))
  /\ Len(responses) = Len(searchCalls)
  /\ pc \in {"search", "dedup"} => jobs = Fetched
  /\ Truncated =>
       \A a, b \in 1..Len(jobs) :
         a < b =>
           \E p, q \in 1..Len(Fetched) :
             /\ p < q
             /\ Fetched[p] = Bare(jobs[a])
             /\ Fetched[q] = Bare(jobs[b])
             /\ \A h \in 1..(q - 1) : Key(Fetched[h]) # Key(jobs[b])

\* Two companies each contributed records, the second after a malformed
\* item, and the final list holds records of both.
C10_Witness ==
  /\ Truncated
  /\ Len(responses) >= 2
  /\ Contribution(1) # <<>>
  /\ Contribution(2) # <<>>
  /\ Len(jobs) >= 3
  /\ Bare(jobs[1]) = Contribution(1)[1]
  /\ Bare(jobs[Len(jobs)]) = Contribution(2)[Len(Contribution(2))]

====
